---- MODULE Spec2Model ----
(***************************************************************************)
(* Model of nanobot/channels/signal.py: the Signal channel (SignalChannel, *)
(* UniversalHandler), the worker thread that owns the signalbot client and *)
(* its event loop, and the message bus the channel subscribes to.          *)
(*                                                                         *)
(* Two execution contexts exist.  The main domain is the asyncio loop that *)
(* runs start(), stop(), send() and the bus dispatch as coroutines: they   *)
(* interleave only at their await points.  Each worker thread runs         *)
(* _run_bot_in_thread and interleaves with everything.                     *)
(***************************************************************************)
EXTENDS Integers, Sequences, FiniteSets, TLC

\* ------------------------------------------------------------------ bounds

\* Number of worker threads (successful start() calls) a behaviour may create.
MaxWorkers == 2

Workers == 1..MaxWorkers

\* None, for the references _bot, _bot_thread and _universal_handler.
NoWorker == 0

NoneVal == "None"

\* ------------------------------------------------------------ configuration

\* SignalConfig.phone_number values.
PhoneNumbers == {"", "+1"}

\* SignalConfig.signal_service values, as sequences of characters.
Services ==
  { <<>>,
    <<"h">>,
    <<"h", ":", "8">>,
    <<"h", ":", "x">> }

Digits == {"8"}

\* SignalConfig.allow_from values.
Senders == {"+1", "+2"}

AllowLists == { {}, {"+1"} }

\* SignalChannel.name, and the name of a second channel on the same bus.
SignalName == "signal"

PeerName == "telegram"

ChannelNames == {SignalName, PeerName}

\* OutboundMessage values (channel, chat_id).
OutboundMessages == [channel : ChannelNames, chat_id : {"+1"}]

NoMsg == [channel |-> NoneVal, chat_id |-> NoneVal]

\* ------------------------------------------------------------------ helpers

\* str.split(":") on a sequence of characters: the parts between separators.
RECURSIVE SplitAcc(_, _, _)
SplitAcc(s, cur, acc) ==
  IF s = <<>> THEN Append(acc, cur)
  ELSE IF Head(s) = ":" THEN SplitAcc(Tail(s), <<>>, Append(acc, cur))
  ELSE SplitAcc(Tail(s), Append(cur, Head(s)), acc)

Split(s) == SplitAcc(s, <<>>, <<>>)

\* int(part) succeeds: a non-empty run of digits.
IsInt(part) == part # <<>> /\ \A i \in 1..Len(part) : part[i] \in Digits

\* start(), lines 133-135: int(parts[1]) is evaluated only for two parts.
PortParseRaises(service) ==
  LET parts == Split(service) IN Len(parts) = 2 /\ ~IsInt(parts[2])

ConfigMissingNoServiceCheck(phone, service) == phone = ""

\* start(), lines 121-127: the two configuration guards.
ConfigMissing(phone, service) == phone = "" \/ service = <<>>

OnOutboundAlways(name, msg) == TRUE

\* _on_outbound, line 248: the routing test.
OnOutbound(name, msg) == msg.channel = name

SendExceptPropagates(outcome) == "raised"

\* send(), lines 243-244: the except clause turns any failure into a logged one.
SendExcept(outcome) == "failed"

\* BaseChannel.is_allowed: the empty allow-list admits every sender.
IsAllowed(allow, sender) == allow = {} \/ sender \in allow

\* handle(), lines 86-88: "a or b" and "text or ''".
OrElse(a, b) == IF a = NoneVal \/ a = "" THEN b ELSE a

RECURSIVE CountOf(_, _)
CountOf(seq, x) ==
  IF seq = <<>> THEN 0
  ELSE (IF Head(seq) = x THEN 1 ELSE 0) + CountOf(Tail(seq), x)

\* -------------------------------------------------------------------- state

VARIABLES
  phone_number,       \* config.phone_number
  signal_service,     \* config.signal_service
  allow_from,         \* config.allow_from
  running,            \* self._running
  bot,                \* self._bot: the worker whose client it is, or NoWorker
  bot_thread,         \* self._bot_thread
  universal_handler,  \* self._universal_handler
  stop_event,         \* self._stop_event
  subs,               \* the bus's outbound subscriptions, in registration order
  wpc,                \* each worker thread's position in _run_bot_in_thread
  taskOn,             \* the worker loop holding the scheduled send task
  taskState,          \* "none", "queued", "done_ok", "done_exc"
  startPc,            \* start(): "idle", "sleeping"
  stopPc,             \* stop(): "idle", "joining", "clearing"
  sendPc,             \* send(): "idle", "awaiting"
  startOutcome,       \* how the last start() call ended
  sendOutcome,        \* how the last send() call ended, until the dispatch moves on
  sendCallLive,       \* at the entry of the send() call in flight: is_running
                      \* was true, or a start() call had not returned yet
  stopDone,           \* stop() has returned and start() was not called since
  dispatchMsg,        \* the message the bus is dispatching, or NoMsg
  dispatchRest,       \* handlers the dispatch has still to call
  delivered,          \* handler calls of this dispatch, per channel
  sendCalls,          \* send() calls of this dispatch, per channel
  dispatchCrashed,    \* an exception escaped a handler into the dispatch loop
  platformSends,      \* platform send calls made for the message in dispatch
  lastInbound         \* what handle() did with the last inbound event

vars ==
  << phone_number, signal_service, allow_from, running, bot, bot_thread,
     universal_handler, stop_event, subs, wpc, taskOn, taskState, startPc,
     stopPc, sendPc, startOutcome, sendOutcome, sendCallLive,
     stopDone, dispatchMsg, dispatchRest, delivered,
     sendCalls, dispatchCrashed, platformSends, lastInbound >>

configVars == << phone_number, signal_service, allow_from >>

channelVars == << running, bot, bot_thread, universal_handler, stop_event >>

workerVars == << wpc, taskOn, taskState >>

sendObs == << sendOutcome, sendCallLive >>

busVars ==
  << dispatchMsg, dispatchRest, delivered, sendCalls, dispatchCrashed,
     platformSends >>

NoInbound ==
  [sender |-> NoneVal, content |-> NoneVal, handled |-> FALSE,
   published |-> FALSE, rejected |-> FALSE, stored |-> FALSE,
   context |-> NoneVal]

ZeroCounts == [c \in ChannelNames |-> 0]

\* The peer channel is running and holds its one subscription throughout.
Init ==
  /\ phone_number \in PhoneNumbers
  /\ signal_service \in Services
  /\ allow_from \in AllowLists
  /\ running = FALSE
  /\ bot = NoWorker
  /\ bot_thread = NoWorker
  /\ universal_handler = NoWorker
  /\ stop_event = FALSE
  /\ subs = << PeerName >>
  /\ wpc = [w \in Workers |-> "unborn"]
  /\ taskOn = NoWorker
  /\ taskState = "none"
  /\ startPc = "idle"
  /\ stopPc = "idle"
  /\ sendPc = "idle"
  /\ startOutcome = "none"
  /\ sendOutcome = "none"
  /\ sendCallLive = FALSE
  /\ stopDone = FALSE
  /\ dispatchMsg = NoMsg
  /\ dispatchRest = <<>>
  /\ delivered = ZeroCounts
  /\ sendCalls = ZeroCounts
  /\ dispatchCrashed = FALSE
  /\ platformSends = 0
  /\ lastInbound = NoInbound

\* The main thread runs one coroutine at a time and is blocked while stop()
\* sits in its synchronous body (stop() has no await).
MainFree == stopPc = "idle"

Unborn == {w \in Workers : wpc[w] = "unborn"}

\* threading.Thread.is_alive()
IsAlive(w) == w # NoWorker /\ wpc[w] \notin {"unborn", "done"}

\* loop.is_closed() for the loop of worker w's client.
LoopClosed(w) == wpc[w] \in {"closed", "done"}

SubsOf(name) == CountOf(subs, name)

\* The worker created by the most recent successful start(), or NoWorker.
LastWorker ==
  IF Unborn = Workers THEN NoWorker
  ELSE CHOOSE w \in Workers \ Unborn : \A v \in Workers \ Unborn : v <= w

\* ------------------------------------------------------------------ start()

\* Lines 121-153, up to the await: the whole body runs without a suspension.
StartCall ==
  /\ MainFree
  /\ startPc = "idle"
  /\ IF ConfigMissing(phone_number, signal_service)
     THEN \* lines 121-127: log and return
          /\ startOutcome' = "config_error"
          /\ UNCHANGED << channelVars, subs, workerVars, startPc, stopDone >>
     ELSE IF PortParseRaises(signal_service)
     THEN \* lines 129-135: ValueError leaves start() after _running = True
          /\ running' = TRUE
          /\ stop_event' = FALSE
          /\ startOutcome' = "raised"
          /\ stopDone' = FALSE
          /\ UNCHANGED << bot, bot_thread, universal_handler, subs,
                          workerVars, startPc >>
     ELSE \* lines 129-153: subscribe, create and start the thread
          /\ Unborn # {}
          /\ LET w == CHOOSE u \in Unborn : \A v \in Unborn : u <= v IN
               /\ running' = TRUE
               /\ stop_event' = FALSE
               /\ subs' = Append(subs, SignalName)
               /\ bot_thread' = w
               /\ wpc' = [wpc EXCEPT ![w] = "spawned"]
          /\ startPc' = "sleeping"
          /\ startOutcome' = "pending"
          /\ stopDone' = FALSE
          /\ UNCHANGED << bot, universal_handler, taskOn, taskState >>
  /\ UNCHANGED << configVars, stopPc, sendPc, sendObs, busVars, lastInbound >>

\* Lines 156-158: the sleep is over, start() returns.
StartReturn ==
  /\ MainFree
  /\ startPc = "sleeping"
  /\ startPc' = "idle"
  /\ startOutcome' = "returned"
  /\ UNCHANGED << configVars, channelVars, subs, workerVars, stopPc, sendPc,
                  sendObs, stopDone, busVars, lastInbound >>

\* ------------------------------------------------------- _run_bot_in_thread

\* Lines 176-179: the client is constructed in the thread.
WorkerCreateBot(w) ==
  /\ wpc[w] = "spawned"
  /\ bot' = w
  /\ wpc' = [wpc EXCEPT ![w] = "created"]
  /\ UNCHANGED << configVars, running, bot_thread, universal_handler,
                  stop_event, subs, taskOn, taskState, startPc, stopPc, sendPc,
                  startOutcome, sendObs, stopDone, busVars, lastInbound >>

\* Lines 182-185: the handler is created and registered.
WorkerRegister(w) ==
  /\ wpc[w] = "created"
  /\ universal_handler' = w
  /\ wpc' = [wpc EXCEPT ![w] = "registered"]
  /\ UNCHANGED << configVars, running, bot, bot_thread, stop_event, subs,
                  taskOn, taskState, startPc, stopPc, sendPc, startOutcome,
                  sendObs, stopDone, busVars, lastInbound >>

\* Line 190: bot.start(run_forever=True) enters the loop.
WorkerRunLoop(w) ==
  /\ wpc[w] = "registered"
  /\ wpc' = [wpc EXCEPT ![w] = "running"]
  /\ UNCHANGED << configVars, channelVars, subs, taskOn, taskState, startPc,
                  stopPc, sendPc, startOutcome, sendObs, stopDone, busVars,
                  lastInbound >>

\* Lines 176-199, initialisation failing: the import, the constructor,
\* register or start raises before the loop runs.  The except clause logs,
\* the finally clause closes the loop and sets self._running = False, and the
\* thread ends; self._bot and self._universal_handler keep what they hold.
\* Nothing reads the loop between its close and the thread's end that could
\* tell the two apart, so the failure is one step.
WorkerFail(w) ==
  /\ wpc[w] \in {"spawned", "created", "registered"}
  /\ running' = FALSE
  /\ wpc' = [wpc EXCEPT ![w] = "done"]
  /\ UNCHANGED << configVars, bot, bot_thread, universal_handler, stop_event,
                  subs, taskOn, taskState, startPc, stopPc, sendPc,
                  startOutcome, sendObs, stopDone, busVars, lastInbound >>

\* Lines 190-198: the run loop ends (bot.start returns or raises); the
\* finally clause closes the thread's loop.  Whatever the loop had queued is
\* dropped without being run.
WorkerLeave(w) ==
  /\ wpc[w] = "running"
  /\ wpc' = [wpc EXCEPT ![w] = "closed"]
  /\ UNCHANGED << configVars, channelVars, subs, taskOn, taskState, startPc,
                  stopPc, sendPc, startOutcome, sendObs, stopDone, busVars,
                  lastInbound >>

\* Line 199: self._running = False, and the thread ends.
WorkerExit(w) ==
  /\ wpc[w] = "closed"
  /\ running' = FALSE
  /\ wpc' = [wpc EXCEPT ![w] = "done"]
  /\ UNCHANGED << configVars, bot, bot_thread, universal_handler, stop_event,
                  subs, taskOn, taskState, startPc, stopPc, sendPc,
                  startOutcome, sendObs, stopDone, busVars, lastInbound >>

\* The running loop executes the scheduled coroutine self._bot.send(...): the
\* platform call succeeds or raises, and the future is resolved accordingly.
WorkerRunTask(w, ok) ==
  /\ wpc[w] = "running"
  /\ taskOn = w
  /\ taskState = "queued"
  /\ taskState' = IF ok THEN "done_ok" ELSE "done_exc"
  /\ platformSends' = IF dispatchMsg # NoMsg THEN platformSends + 1
                      ELSE platformSends
  /\ UNCHANGED << configVars, channelVars, subs, wpc, taskOn, startPc, stopPc,
                  sendPc, startOutcome, sendOutcome, sendCallLive, stopDone,
                  dispatchMsg, dispatchRest, delivered, sendCalls,
                  dispatchCrashed, lastInbound >>

\* ------------------------------------------------------------------- stop()

\* Lines 203-216: clear the flag, set the event, and join the thread (with a
\* timeout of 2 seconds) when a client is held and its thread is alive.  The
\* nested stop_loop function is defined and never called.
StopCall ==
  /\ MainFree
  /\ running' = FALSE
  /\ stop_event' = TRUE
  /\ stopPc' = IF bot # NoWorker /\ IsAlive(bot_thread)
               THEN "joining" ELSE "clearing"
  /\ UNCHANGED << configVars, bot, bot_thread, universal_handler, subs,
                  workerVars, startPc, sendPc, startOutcome, sendObs, stopDone,
                  busVars, lastInbound >>

JoinEndsNoTimeout(w) == ~IsAlive(w)

\* Line 216: join(timeout=2) ends when the thread has exited or, the thread
\* still alive, when the two seconds have passed: in every case.
JoinEnds(w) == TRUE

\* Lines 216-221: the join ends (the thread exited, or the timeout passed) and
\* the references are cleared; stop() returns.
StopFinish ==
  /\ stopPc = "clearing" \/ (stopPc = "joining" /\ JoinEnds(bot_thread))
  /\ bot' = NoWorker
  /\ bot_thread' = NoWorker
  /\ universal_handler' = NoWorker
  /\ stopPc' = "idle"
  /\ stopDone' = TRUE
  /\ UNCHANGED << configVars, running, stop_event, subs, workerVars, startPc,
                  sendPc, startOutcome, sendObs, busVars, lastInbound >>

\* ------------------------------------------------------------------- send()

\* Lines 225-240, up to the await.
SendEnter ==
  /\ IF bot = NoWorker
     THEN \* lines 225-227
          /\ sendOutcome' = "not_running"
          /\ UNCHANGED << sendPc, taskOn, taskState, sendCallLive >>
     ELSE IF LoopClosed(bot)
     THEN \* line 235: run_coroutine_threadsafe raises on a closed loop
          /\ sendOutcome' = SendExcept("schedule")
          /\ UNCHANGED << sendPc, taskOn, taskState, sendCallLive >>
     ELSE \* lines 235-240: the coroutine is queued on the client's loop
          /\ taskOn' = bot
          /\ taskState' = "queued"
          /\ sendPc' = "awaiting"
          /\ sendOutcome' = "pending"
          /\ sendCallLive' = (running \/ startPc # "idle")

FutureDoneAtOnce(state) == state # "none"

\* Line 240: await asyncio.wrap_future(future) ends once the future holds a
\* result or an exception.
FutureDone(state) == state \in {"done_ok", "done_exc"}

\* A direct call of channel.send(msg).
CallSend ==
  /\ MainFree
  /\ sendPc = "idle"
  /\ dispatchMsg = NoMsg
  /\ SendEnter
  /\ UNCHANGED << configVars, channelVars, subs, wpc, startPc, stopPc,
                  startOutcome, stopDone, busVars, lastInbound >>

\* Lines 240-244: the future is resolved and the await ends, normally or with
\* the platform's exception.
SendResume ==
  /\ MainFree
  /\ sendPc = "awaiting"
  /\ FutureDone(taskState)
  /\ sendOutcome' = IF taskState = "done_ok" THEN "ok" ELSE SendExcept("platform")
  /\ sendPc' = "idle"
  /\ taskOn' = NoWorker
  /\ taskState' = "none"
  /\ sendCallLive' = FALSE
  /\ dispatchCrashed' = (dispatchCrashed \/
                          (dispatchMsg # NoMsg /\ sendOutcome' = "raised"))
  /\ UNCHANGED << configVars, channelVars, subs, wpc, startPc, stopPc,
                  startOutcome, stopDone, dispatchMsg, dispatchRest,
                  delivered, sendCalls, platformSends, lastInbound >>

\* ---------------------------------------------------------------- the bus

\* publish_outbound: the message goes to every current outbound subscriber.
Publish(m) ==
  /\ MainFree
  /\ dispatchMsg = NoMsg
  /\ sendPc = "idle"
  /\ ~dispatchCrashed
  /\ dispatchMsg' = m
  /\ dispatchRest' = subs
  /\ delivered' = ZeroCounts
  /\ sendCalls' = ZeroCounts
  /\ platformSends' = 0
  /\ UNCHANGED << configVars, channelVars, subs, workerVars, startPc, stopPc,
                  sendPc, startOutcome, sendObs, stopDone, dispatchCrashed,
                  lastInbound >>

\* The dispatch awaits the next subscriber's _on_outbound(msg), lines 246-249.
Deliver ==
  /\ MainFree
  /\ dispatchMsg # NoMsg
  /\ dispatchRest # <<>>
  /\ sendPc = "idle"
  /\ ~dispatchCrashed
  /\ LET h == Head(dispatchRest) IN
       /\ dispatchRest' = Tail(dispatchRest)
       /\ delivered' = [delivered EXCEPT ![h] = @ + 1]
       /\ IF OnOutbound(h, dispatchMsg)
          THEN /\ sendCalls' = [sendCalls EXCEPT ![h] = @ + 1]
               /\ IF h = SignalName
                  THEN SendEnter
                  ELSE /\ sendOutcome' = "none"
                       /\ UNCHANGED << sendPc, taskOn, taskState,
                                       sendCallLive >>
          ELSE /\ sendOutcome' = "none"
               /\ UNCHANGED << sendCalls, sendPc, taskOn, taskState,
                               sendCallLive >>
  /\ dispatchCrashed' = (sendOutcome' = "raised")
  /\ UNCHANGED << configVars, channelVars, subs, wpc, startPc, stopPc,
                  startOutcome, stopDone, dispatchMsg, platformSends,
                  lastInbound >>

\* Every subscriber was called: the dispatch of this message is over.
DispatchDone ==
  /\ MainFree
  /\ dispatchMsg # NoMsg
  /\ dispatchRest = <<>>
  /\ sendPc = "idle"
  /\ ~dispatchCrashed
  /\ dispatchMsg' = NoMsg
  /\ delivered' = ZeroCounts
  /\ sendCalls' = ZeroCounts
  /\ platformSends' = 0
  /\ sendOutcome' = "none"
  /\ UNCHANGED << configVars, channelVars, subs, workerVars, startPc, stopPc,
                  sendPc, startOutcome, sendCallLive, stopDone,
                  dispatchRest, dispatchCrashed, lastInbound >>

\* ---------------------------------------------------- UniversalHandler.handle

\* signalbot's message fields: source_number, source, text.
InboundEvents ==
  [source_number : {NoneVal} \cup Senders,
   source : {NoneVal, "+2"},
   text : {NoneVal, "hi"}]

\* BaseChannel._handle_message: the allow-list gate in front of publish_inbound.
HandleMessagePublishes(allow, sender) == IsAllowed(allow, sender)

\* Lines 79-103, run by the client's loop for each received message: the
\* sender and the text are read and _handle_message is awaited there, in the
\* worker thread ("context").  Nothing is replied to the sender ("rejected")
\* and the signalbot context c is kept nowhere ("stored").
WorkerHandle(w, c) ==
  /\ wpc[w] = "running"
  /\ LET sender_id == OrElse(c.source_number, c.source)
         content == OrElse(c.text, "")
     IN lastInbound' =
          [sender |-> sender_id, content |-> content, handled |-> TRUE,
           published |-> HandleMessagePublishes(allow_from, sender_id),
           rejected |-> FALSE, stored |-> FALSE, context |-> "worker"]
  /\ UNCHANGED << configVars, channelVars, subs, workerVars, startPc, stopPc,
                  sendPc, startOutcome, sendObs, stopDone, busVars >>

\* ------------------------------------------------------------ specification

\* The lifecycle: start(), stop() and the worker thread.
Lifecycle ==
  \/ StartCall
  \/ StartReturn
  \/ StopCall
  \/ StopFinish
  \/ \E w \in Workers : WorkerCreateBot(w)
  \/ \E w \in Workers : WorkerRegister(w)
  \/ \E w \in Workers : WorkerRunLoop(w)
  \/ \E w \in Workers : WorkerFail(w)
  \/ \E w \in Workers : WorkerLeave(w)
  \/ \E w \in Workers : WorkerExit(w)

\* send() and the worker loop's execution of the scheduled task.
Sending ==
  \/ SendResume
  \/ \E w \in Workers, ok \in BOOLEAN : WorkerRunTask(w, ok)

\* The bus's outbound dispatch.
Dispatching ==
  \/ \E m \in OutboundMessages : Publish(m)
  \/ Deliver
  \/ DispatchDone

\* Inbound events reaching the registered handler.
Receiving ==
  \E w \in Workers, c \in InboundEvents : WorkerHandle(w, c)

Next == Lifecycle \/ CallSend \/ Sending \/ Dispatching \/ Receiving

\* The whole system.
SpecAll == Init /\ [][Next]_vars

\* send(), the bus and handle() write no variable that start(), stop() or the
\* worker's lifecycle read, and allow_from is read by handle() alone.  Each
\* specification below is the lifecycle together with one of the three.

\* The lifecycle with direct calls of send().
InitSend == Init /\ allow_from = {}

NextSend == Lifecycle \/ CallSend \/ Sending

Spec == InitSend /\ [][NextSend]_vars

\* The scheduling the runtime guarantees: a thread that can take its next
\* step takes it, the event loop resumes a coroutine whose await has ended,
\* and a running client loop runs what is queued on it.  Nothing guarantees
\* that a caller calls start(), stop() or send(), nor that a run loop ends.
Fairness ==
  /\ WF_vars(StartReturn)
  /\ WF_vars(StopFinish)
  /\ WF_vars(SendResume)
  /\ \A w \in Workers :
       /\ WF_vars(WorkerCreateBot(w))
       /\ WF_vars(WorkerRegister(w))
       /\ WF_vars(WorkerRunLoop(w))
       /\ WF_vars(WorkerExit(w))
       /\ WF_vars(\E ok \in BOOLEAN : WorkerRunTask(w, ok))

SpecFair == InitSend /\ [][NextSend]_vars /\ Fairness

\* stop() has no await: once entered, the main thread runs it to its end,
\* the join included.  Nothing else is assumed of any thread.
SpecStop == InitSend /\ [][NextSend]_vars /\ WF_vars(StopFinish)

\* The lifecycle with sends issued by the bus's outbound dispatch.
NextBus == Lifecycle \/ Sending \/ Dispatching

InitBus ==
  Init /\ allow_from = {} /\ phone_number = "+1"
       /\ signal_service = <<"h", ":", "8">>

SpecBus == InitBus /\ [][NextBus]_vars

\* The lifecycle with inbound events.
NextInbound == Lifecycle \/ Receiving

SpecInbound == Init /\ [][NextInbound]_vars

TypeOK ==
  /\ running \in BOOLEAN
  /\ bot \in Workers \cup {NoWorker}
  /\ bot_thread \in Workers \cup {NoWorker}
  /\ universal_handler \in Workers \cup {NoWorker}
  /\ taskOn \in Workers \cup {NoWorker}
  /\ taskState \in {"none", "queued", "done_ok", "done_exc"}
  /\ startPc \in {"idle", "sleeping"}
  /\ stopPc \in {"idle", "joining", "clearing"}
  /\ sendPc \in {"idle", "awaiting"}
  /\ startOutcome \in {"none", "config_error", "raised", "pending", "returned"}
  /\ sendOutcome \in {"none", "not_running", "pending", "ok", "failed", "raised"}

\* ------------------------------------------------------------------- claims

\* C1: with phone_number or signal_service empty, start() returns with a
\* configuration error and the channel stays Stopped: is_running false, no
\* client, no worker thread ever created, no outbound subscription.
C1_MissingConfigStaysStopped ==
  (phone_number = "" \/ signal_service = <<>>) =>
    /\ startOutcome \in {"none", "config_error"}
    /\ ~running
    /\ bot = NoWorker
    /\ bot_thread = NoWorker
    /\ Unborn = Workers
    /\ SubsOf(SignalName) = 0

\* start() was called with a phone number and no service address.
C1_Witness ==
  startOutcome = "config_error" /\ phone_number # "" /\ signal_service = <<>>

C3_SendOutsideRunningIsNoOp ==
  /\ ~(sendPc = "awaiting" /\ ~sendCallLive
       /\ taskState \in {"done_ok", "done_exc"})
  /\ sendOutcome # "raised"

\* C4: when stop() returns on a channel that was started, the channel's
\* outbound subscription is gone from the bus, is_running is false and no
\* client is held.
C4_StopUnsubscribes ==
  [][(stopPc # "idle" /\ stopPc' = "idle" /\ LastWorker # NoWorker) =>
       (CountOf(subs', SignalName) = 0 /\ ~running' /\ bot' = NoWorker)]_vars

\* C5: the channel holds at most one outbound subscription: exactly one
\* while Running, none while Stopped.
C5_OneSubscription ==
  /\ SubsOf(SignalName) <= 1
  /\ (stopDone \/ startOutcome = "none") => SubsOf(SignalName) = 0
  /\ (running /\ startOutcome = "returned" /\ ~stopDone) =>
       SubsOf(SignalName) = 1

\* C6: stop() returning on a never-started or already-stopped channel leaves
\* it Stopped: is_running false, no client, no worker, no subscription.
C6_StopIdempotent ==
  [][(stopPc # "idle" /\ stopPc' = "idle"
      /\ (stopDone \/ LastWorker = NoWorker)) =>
       (/\ ~running'
        /\ bot' = NoWorker
        /\ bot_thread' = NoWorker
        /\ universal_handler' = NoWorker
        /\ CountOf(subs', SignalName) = 0)]_vars

\* C7: the handler calls _handle_message exactly for senders the allow-list
\* admits; a sender it does not admit gets a rejection reply and nothing is
\* published.
C7_AllowListGate ==
  lastInbound # NoInbound =>
    LET ok == IsAllowed(allow_from, lastInbound.sender) IN
      /\ lastInbound.handled <=> ok
      /\ ~ok => (lastInbound.rejected /\ ~lastInbound.published)

\* C8: no failure of a send (the platform send raising, or the scheduling on
\* a closed loop raising) leaves send() as an exception: the call ends as a
\* logged failure and the bus's dispatch goes on.
C8_SendFailureCaught ==
  /\ sendOutcome # "raised"
  /\ ~dispatchCrashed
  /\ (sendOutcome \in {"failed", "ok", "not_running"}) => sendPc = "idle"

\* A dispatched send failed on a client whose loop is running (the platform
\* send raised), and the dispatch is still in progress.
C8_Witness ==
  /\ sendOutcome = "failed"
  /\ dispatchMsg.channel = SignalName
  /\ bot # NoWorker
  /\ wpc[bot] = "running"

\* C9: start() never raises, and a start() that fails leaves the channel
\* Stopped: is_running false, no worker, no subscription.
C9_StartNeverRaises ==
  /\ startOutcome # "raised"
  /\ startOutcome = "config_error" =>
       (~running /\ bot_thread = NoWorker /\ SubsOf(SignalName) = 0)

\* C10: start() returns with is_running true only once its worker has
\* constructed the client and registered the handler.
C10_StartReadiness ==
  [][(startPc = "sleeping" /\ startPc' = "idle" /\ running') =>
       wpc[LastWorker] \in {"registered", "running"}]_vars

\* C11: stop() on a running channel requests the worker's run loop to halt:
\* a worker thread alive when stop() has returned eventually exits, so no
\* worker thread stays alive once the channel is Stopped.
C11_StopReleasesWorker ==
  \A w \in Workers : (stopDone /\ stopPc = "idle" /\ IsAlive(w)) ~> ~IsAlive(w)

\* C12: a stop() that was entered always returns, with is_running false and
\* the client, thread and handler references cleared, whatever the worker
\* and a pending send() do.
C12_StopTerminates ==
  (stopPc # "idle") ~>
    (/\ stopPc = "idle"
     /\ stopDone
     /\ ~running
     /\ bot = NoWorker
     /\ bot_thread = NoWorker
     /\ universal_handler = NoWorker)

\* stop() is in its join on a worker whose loop runs, while a send() awaits
\* its task on that loop.
C12_Witness ==
  /\ stopPc = "joining"
  /\ wpc[bot_thread] = "running"
  /\ sendPc = "awaiting"
  /\ taskState = "queued"

\* C13: delivery is at-most-once: whatever start() and stop() calls came
\* before, one outbound message published for the Signal channel causes at
\* most one platform send.
C13_AtMostOnceDelivery ==
  dispatchMsg.channel = SignalName => platformSends <= 1

\* C14: worker initialisation failing (the import, the constructor, register
\* or the run loop's start raising) after start() has returned leaves the
\* channel Stopped: is_running false and no platform client held.
C14_StartFailureStops ==
  [][\A w \in Workers :
       (/\ wpc[w] \in {"spawned", "created", "registered"}
        /\ wpc'[w] = "done"
        /\ w = LastWorker
        /\ startPc = "idle"
        /\ stopPc = "idle")
       => (~running' /\ bot' = NoWorker)]_vars

\* C15: a send() of the bus's dispatch leaves the platform call to a task
\* queued on the client's loop: the call is made only by the worker whose
\* loop runs, while send() is suspended, and send() returns only once that
\* task holds a result or an exception.
C15_SendMarshalled ==
  [][/\ (sendPc = "idle" /\ sendPc' = "awaiting") =>
          (/\ taskOn' = bot
           /\ taskState' = "queued"
           /\ platformSends' = platformSends)
     /\ (platformSends' > platformSends) =>
          (/\ sendPc = "awaiting"
           /\ sendPc' = "awaiting"
           /\ taskOn # NoWorker
           /\ wpc[taskOn] = "running"
           /\ taskState' \in {"done_ok", "done_exc"})
     /\ (sendPc = "awaiting" /\ sendPc' = "idle") =>
          (/\ taskState \in {"done_ok", "done_exc"}
           /\ sendOutcome' = IF taskState = "done_ok" THEN "ok" ELSE "failed")
    ]_vars

\* A message for the Signal channel was sent by the worker's loop once and
\* the send() of a running channel has returned with success.
C15_Witness ==
  /\ dispatchMsg.channel = SignalName
  /\ platformSends = 1
  /\ sendOutcome = "ok"
  /\ sendPc = "idle"
  /\ running

\* C16: a send() never waits on a task that the worker will not run: no
\* send() is suspended on a task queued on a loop that is closed.
C16_SendNeverStuck ==
  ~(sendPc = "awaiting" /\ taskState = "queued" /\ LoopClosed(taskOn))

\* C17: inbound forwarding happens only in Running: an event that reaches
\* the handler while is_running is false (stop() under way or returned, or
\* the worker gone) is not passed to _handle_message and not published.
C17_ForwardOnlyWhenRunning ==
  [][(~running /\ lastInbound' # lastInbound) =>
       (~lastInbound'.handled /\ ~lastInbound'.published)]_vars

\* C18: the _handle_message call that publishes an inbound event runs in
\* the bus's (main) context, never in the worker thread's.
C18_InboundHandedToMain ==
  lastInbound.handled => lastInbound.context = "main"

\* C19: at most one worker thread of the channel is alive.
C19_AtMostOneWorker ==
  Cardinality({w \in Workers : IsAlive(w)}) <= 1

\* C20: handling an inbound message of a known sender stores the platform
\* context under that sender in the reply-context cache.
C20_ReplyContextStored ==
  (lastInbound.handled /\ lastInbound.sender # NoneVal) => lastInbound.stored

\* C21: the handler passes an event to _handle_message exactly when the
\* event has a sender and a non-empty text, and then with that sender and
\* that text; an event with no sender or no text is skipped.
C21_SkipsEmptyEvents ==
  lastInbound # NoInbound =>
    (lastInbound.handled <=>
       (lastInbound.sender # NoneVal /\ lastInbound.content # ""))

\* C22: the end of a worker thread of an earlier start() leaves is_running
\* true, when the newest worker is alive and no stop() was called since the
\* latest start().
C22_OldWorkerExitKeepsRunning ==
  [][(/\ running
      /\ LastWorker # NoWorker
      /\ IsAlive(LastWorker)
      /\ stopPc = "idle"
      /\ ~stopDone
      /\ \E w \in Workers :
           w # LastWorker /\ wpc[w] # "done" /\ wpc'[w] = "done")
     => running']_vars

====
